---- MODULE Spec2Model ----
(***************************************************************************)
(* Payment-link lifecycle of src/main.py: the payment_links table, the     *)
(* HTTP handlers that read and write it, and the part of the payment       *)
(* gateway (checkout sessions) the handlers depend on.                     *)
(*                                                                         *)
(* Timestamps are counted in units of the expiration window (five         *)
(* minutes): the handlers only ever compare now with created_at plus the   *)
(* window, and a difference of 0, 1 or 2 units puts now before, exactly on *)
(* and after that instant.  A token is modelled by the row id of the       *)
(* record it was minted for (uuid4 tokens are unique and never reused).    *)
(***************************************************************************)
EXTENDS Integers, Sequences, FiniteSets, TLC

\* ---------------------------------------------------------------- bounds
\* the clock stops at MaxTime
MaxTime == 2
\* rows the table holds when the gateway is modelled with it
MaxRecords == 2
\* rows the table holds when the links are modelled on their own
MaxLinks == 3
\* checkout sessions the gateway holds
MaxSessions == 1

\* ------------------------------------------------------------- constants
\* timedelta(minutes=5), in units of five minutes
EXPIRATION_WINDOW == 1

Orders == {"A1"}
BlankOrder == " "
Emails == {"x@y.com"}
Amounts == {20}
Workers == {1, 2}

NoToken == 0

VARIABLES
    records,     \* the payment_links table, in row-id order
    sessions,    \* the gateway's checkout sessions, in creation order
    now,         \* datetime.now()
    last,        \* the last request served and its response
    paidOrders,  \* order ids some record of which payment_success marked paid
    pc,          \* per worker process: position inside create_payment_link
    req,         \* per worker process: the request being served
    observed     \* the operations whose responses are recorded in last

vars == <<records, sessions, now, last, paidOrders, pc, req, observed>>

\* ------------------------------------------------------------ the table
PaymentLink(token, order_id, email, amount, created_at, status) ==
    [token |-> token, order_id |-> order_id, email |-> email,
     amount |-> amount, created_at |-> created_at, status |-> status]

Ids == 1..Len(records)

\* the tokens and session ids a request can carry: every one in use, and one
\* that is not
Tokens == 1..(Len(records) + 1)
SessionIds == 1..(Len(sessions) + 1)

\* db.query(PaymentLink).filter(PaymentLink.token == token).first()
\* (token is a unique column: at most one row matches); 0 when no row matches
FindByToken(token) ==
    IF \E i \in Ids : records[i].token = token
    THEN CHOOSE i \in Ids : records[i].token = token
    ELSE 0

ActiveIds(order_id) ==
    {i \in Ids : records[i].order_id = order_id
                 /\ records[i].status \in {"pending", "paid"}}

\* .filter(order_id == ..., status.in_(("pending", "paid"))).first() has no
\* ORDER BY: SQLite walks the order_id index, which is in row-id order, so
\* the row returned is the matching row with the smallest id.
FirstActive(order_id) ==
    IF ActiveIds(order_id) = {} THEN 0
    ELSE CHOOSE i \in ActiveIds(order_id) : \A j \in ActiveIds(order_id) : i <= j

SetStatus(i, status) == [records EXCEPT ![i].status = status]

\* ------------------------------------------------------------- responses
Operations ==
    {"tick", "create", "lookup", "render", "checkout", "pay", "reconcile",
     "cancel", "sweep"}

\* what last holds after an operation that is not under observation
Unobserved ==
    [op |-> "other", token |-> NoToken, order_id |-> BlankOrder,
     result |-> "none", count |-> 0, repeat |-> FALSE]

\* What the last request was and what it was answered: the operation, the
\* token it was about (for a creation: the order id it was about and the token
\* of the link returned), the result, the number of rows a sweep changed, and
\* whether the request before it was the same successful reconciliation.
Response(op, token, order_id, result, count) ==
    IF op \notin observed THEN Unobserved
    ELSE [op |-> op, token |-> token, order_id |-> order_id, result |-> result,
          count |-> count,
          repeat |-> /\ op = "reconcile" /\ result = "Success"
                     /\ last.op = op /\ last.token = token /\ last.result = result]

NoRequest ==
    [order_id |-> BlankOrder, email |-> "x@y.com", amount |-> 0, seen |-> 0,
     token |-> NoToken, status |-> "none"]

\* the state after startup (create_all on an empty payments.db), with the
\* responses of the operations in ops under observation
InitObserving(ops) ==
    /\ observed = ops
    /\ records = << >>
    /\ sessions = << >>
    /\ now = 0
    /\ last = [op |-> "init", token |-> NoToken, order_id |-> BlankOrder,
               result |-> "none", count |-> 0, repeat |-> FALSE]
    /\ paidOrders = {}
    /\ pc = [w \in Workers |-> "idle"]
    /\ req = [w \in Workers |-> NoRequest]

Init == InitObserving(Operations)

\* The wall clock advances.  Time is counted from the creation of the first
\* link: the handlers compare differences of timestamps only, so the time that
\* passes over an empty table changes nothing.
Tick ==
    /\ records # << >>
    /\ now < MaxTime
    /\ now' = now + 1
    /\ last' = Response("tick", NoToken, BlankOrder, "none", 0)
    /\ UNCHANGED <<records, sessions, paidOrders, pc, req, observed>>

\* -------------------------------------------------- create_payment_link
\* PaymentLinkCreate: order_id.strip() must be non-empty, amount > 0
ValidRequest(order_id, email, amount) ==
    /\ order_id # BlankOrder
    /\ email \in Emails
    /\ amount > 0

\* lines 193-196: the found pending row is reused while
\* created_at + timedelta(minutes=5) > datetime.now()
StillPending(r, t) ==
    /\ r.status = "pending"
    /\ r.created_at + EXPIRATION_WINDOW > t

\* lines 177-207: what the handler decides from the row the lookup returned
CreateDecision(order_id, t) ==
    LET i == FirstActive(order_id) IN
    IF i = 0 THEN "Created"
    ELSE IF records[i].status = "paid" THEN "AlreadyPaid"
    ELSE IF StillPending(records[i], t) THEN "Reused"
    ELSE "Created"

\* lines 209-220: mint a token, add the row, commit
InsertLink(order_id, email, amount, t) ==
    Append(records,
           PaymentLink(Len(records) + 1, order_id, email, amount, t, "pending"))

\* the whole handler, served with nothing in between its lookup and insert
create_payment_link(order_id, email, amount) ==
    /\ IF ~ValidRequest(order_id, email, amount)
       THEN /\ last' = Response("create", NoToken, order_id, "ValidationError", 0)
            /\ UNCHANGED records
       ELSE LET d == CreateDecision(order_id, now) IN
            CASE d = "AlreadyPaid" ->
                   /\ last' = Response("create", NoToken, order_id, "AlreadyPaid", 0)
                   /\ UNCHANGED records
              [] d = "Reused" ->
                   /\ last' = Response("create", records[FirstActive(order_id)].token,
                                       order_id, "Reused", 0)
                   /\ UNCHANGED records
              [] d = "Created" ->
                   /\ records' = InsertLink(order_id, email, amount, now)
                   /\ last' = Response("create", Len(records) + 1, order_id, "Created", 0)
    /\ UNCHANGED <<sessions, now, paidOrders, pc, req, observed>>

\* ------------------------------------------------------------- pay_page
\* datetime.now() > payment_link.created_at + timedelta(minutes=5)
IsExpired(r, t) == t > r.created_at + EXPIRATION_WINDOW

\* the page chosen from the age without the write of lines 248-250
PayPageStatus_NoWrite(r, t) == r.status

\* lines 247-251: the lazy expiry write
PayPageStatus(r, t) ==
    IF IsExpired(r, t) /\ r.status \notin {"paid", "expired"}
    THEN "expired"
    ELSE r.status

\* lines 253-272: the template chosen from the (possibly rewritten) status
PayPageView(status) ==
    IF status = "paid" THEN "PaidView"
    ELSE IF status = "expired" THEN "ExpiredView"
    ELSE "FormView"

pay_page(token) ==
    /\ LET i == FindByToken(token) IN
       IF i = 0
       THEN /\ last' = Response("render", token, BlankOrder, "NotFound", 0)
            /\ UNCHANGED records
       ELSE /\ records' = SetStatus(i, PayPageStatus(records[i], now))
            /\ last' = Response("render", token, BlankOrder,
                                PayPageView(PayPageStatus(records[i], now)), 0)
    /\ UNCHANGED <<sessions, now, paidOrders, pc, req, observed>>

\* ---------------------------------------------- create_checkout_session
\* lines 286-292: the checks made before the gateway is called, in order
CheckoutCheck(i, t) ==
    IF i = 0 THEN "NotFound"
    ELSE IF IsExpired(records[i], t) THEN "InvalidState"
    ELSE IF records[i].status = "paid" THEN "AlreadyCompleted"
    ELSE "ok"

\* the handler storing expired on the record it refuses as expired
create_checkout_session_Expiring(token, gw) ==
    /\ LET i == FindByToken(token)
           c == CheckoutCheck(i, now) IN
       IF c # "ok"
       THEN /\ last' = Response("checkout", token, BlankOrder, c, 0)
            /\ records' = IF c = "InvalidState" THEN SetStatus(i, "expired")
                          ELSE records
            /\ UNCHANGED sessions
       ELSE \/ /\ gw = "error"
               /\ last' = Response("checkout", token, BlankOrder, "GatewayError", 0)
               /\ UNCHANGED <<records, sessions>>
            \/ /\ gw = "ok"
               /\ Len(sessions) < MaxSessions
               /\ sessions' = Append(sessions,
                                     [payment_token |-> records[i].token,
                                      payment_status |-> "unpaid"])
               /\ last' = Response("checkout", token, BlankOrder, "Redirect", 0)
               /\ UNCHANGED records
    /\ UNCHANGED <<now, paidOrders, pc, req, observed>>

\* gw is how stripe.checkout.Session.create goes if it is called: "ok" or
\* "error"
create_checkout_session(token, gw) ==
    /\ LET i == FindByToken(token)
           c == CheckoutCheck(i, now)
           o == IF i = 0 THEN BlankOrder ELSE records[i].order_id IN
       IF c # "ok"
       THEN /\ last' = Response("checkout", token, BlankOrder, c, 0)
            /\ UNCHANGED sessions
       ELSE \/ /\ gw = "error"
               /\ last' = Response("checkout", token, BlankOrder, "GatewayError", 0)
               /\ UNCHANGED sessions
            \/ /\ gw = "ok"
               /\ Len(sessions) < MaxSessions
               \* metadata={"payment_token": payment_link.token}
               /\ sessions' = Append(sessions,
                                     [payment_token |-> records[i].token,
                                      payment_status |-> "unpaid"])
               /\ last' = Response("checkout", token, BlankOrder, "Redirect", 0)
    /\ UNCHANGED <<records, now, paidOrders, pc, req, observed>>

\* the payer completes the hosted checkout of a session
PayerPays(s) ==
    /\ s \in 1..Len(sessions)
    /\ sessions[s].payment_status = "unpaid"
    /\ sessions' = [sessions EXCEPT ![s].payment_status = "paid"]
    /\ last' = Response("pay", NoToken, BlankOrder, "none", 0)
    /\ UNCHANGED <<records, now, paidOrders, pc, req, observed>>

\* ------------------------------------------------------ payment_success
\* stripe.checkout.Session.retrieve(session_id): gw is how the call goes for a
\* session the gateway has; for a session id it does not have the call fails
RetrieveOutcome(session_id, gw) ==
    IF session_id \in 1..Len(sessions) THEN gw ELSE "error"

\* the vetting without the payment_status test of line 344
SessionCheck_SkipPaid(token, session_id, gw) ==
    IF gw = "error" \/ session_id \notin 1..Len(sessions) THEN "GatewayError"
    ELSE IF sessions[session_id].payment_token # token THEN "TokenMismatch"
    ELSE "Success"

\* the vetting without the metadata test of line 350
SessionCheck_SkipToken(token, session_id, gw) ==
    IF gw = "error" \/ session_id \notin 1..Len(sessions) THEN "GatewayError"
    ELSE IF sessions[session_id].payment_status # "paid" THEN "PaymentNotCompleted"
    ELSE "Success"

\* lines 336-355: the outcome of retrieving and vetting the gateway session
SessionCheck(token, session_id, gw) ==
    IF RetrieveOutcome(session_id, gw) = "error" THEN "GatewayError"
    ELSE IF sessions[session_id].payment_status # "paid" THEN "PaymentNotCompleted"
    ELSE IF sessions[session_id].payment_token # token THEN "TokenMismatch"
    ELSE "Success"

\* the handler refusing a link that is no longer pending
payment_success_OnlyPending(token, session_id, gw) ==
    /\ LET i == FindByToken(token) IN
       IF i = 0
       THEN /\ last' = Response("reconcile", token, BlankOrder, "NotFound", 0)
            /\ UNCHANGED <<records, paidOrders>>
       ELSE LET c == IF records[i].status # "pending" THEN "InvalidState"
                     ELSE SessionCheck(token, session_id, gw) IN
            /\ last' = Response("reconcile", token, BlankOrder, c, 0)
            /\ IF c = "Success" /\ records[i].status # "paid"
               THEN /\ records' = SetStatus(i, "paid")
                    /\ paidOrders' = paidOrders \cup {records[i].order_id}
               ELSE UNCHANGED <<records, paidOrders>>
    /\ UNCHANGED <<sessions, now, pc, req, observed>>

payment_success(token, session_id, gw) ==
    /\ LET i == FindByToken(token) IN
       IF i = 0
       THEN /\ last' = Response("reconcile", token, BlankOrder, "NotFound", 0)
            /\ UNCHANGED <<records, paidOrders>>
       ELSE LET c == SessionCheck(token, session_id, gw) IN
            /\ last' = Response("reconcile", token, BlankOrder, c, 0)
            /\ IF c = "Success" /\ records[i].status # "paid"
               THEN /\ records' = SetStatus(i, "paid")
                    /\ paidOrders' = paidOrders \cup {records[i].order_id}
               ELSE UNCHANGED <<records, paidOrders>>
    /\ UNCHANGED <<sessions, now, pc, req, observed>>

\* ---------------------------------------------------- payment_cancelled
\* the handler cancelling a link only while it is pending
payment_cancelled_OnlyPending(token) ==
    /\ LET i == FindByToken(token) IN
       IF i = 0
       THEN /\ last' = Response("cancel", token, BlankOrder, "NotFound", 0)
            /\ UNCHANGED records
       ELSE /\ records' = IF records[i].status = "pending"
                          THEN SetStatus(i, "cancelled") ELSE records
            /\ last' = Response("cancel", token, BlankOrder, "Cancelled", 0)
    /\ UNCHANGED <<sessions, now, paidOrders, pc, req, observed>>

\* lines 374-395
payment_cancelled(token) ==
    /\ LET i == FindByToken(token) IN
       IF i = 0
       THEN /\ last' = Response("cancel", token, BlankOrder, "NotFound", 0)
            /\ UNCHANGED records
       ELSE /\ records' = SetStatus(i, "cancelled")
            /\ last' = Response("cancel", token, BlankOrder, "Cancelled", 0)
    /\ UNCHANGED <<sessions, now, paidOrders, pc, req, observed>>

\* ------------------------------------------------------ cleanup_expired
\* the selection with the boundary instant included
ExpiredLinks_Inclusive(t) ==
    {i \in Ids : records[i].created_at <= t - EXPIRATION_WINDOW
                 /\ records[i].status = "pending"}

\* lines 502-508: the rows the sweep selects
ExpiredLinks(t) ==
    {i \in Ids : records[i].created_at < t - EXPIRATION_WINDOW
                 /\ records[i].status = "pending"}

\* the sweep without its writes
cleanup_expired_CountOnly ==
    /\ last' = Response("sweep", NoToken, BlankOrder, "Swept", Cardinality(ExpiredLinks(now)))
    /\ UNCHANGED <<records, sessions, now, paidOrders, pc, req, observed>>

\* the sweep deleting the rows it selects
cleanup_expired_Deleting ==
    /\ records' = SelectSeq(records,
                            LAMBDA r : ~(/\ r.created_at < now - EXPIRATION_WINDOW
                                         /\ r.status = "pending"))
    /\ last' = Response("sweep", NoToken, BlankOrder, "Swept", Cardinality(ExpiredLinks(now)))
    /\ UNCHANGED <<sessions, now, paidOrders, pc, req, observed>>

\* lines 499-520
cleanup_expired ==
    /\ records' = [i \in Ids |->
                     IF i \in ExpiredLinks(now)
                     THEN [records[i] EXCEPT !.status = "expired"]
                     ELSE records[i]]
    /\ last' = Response("sweep", NoToken, BlankOrder, "Swept", Cardinality(ExpiredLinks(now)))
    /\ UNCHANGED <<sessions, now, paidOrders, pc, req, observed>>

\* --------------------------------------------------------- single server
\* One server process: every handler is a coroutine without an await, so a
\* request is served from its first statement to its response before the
\* next one starts.
Next ==
    \/ Tick
    \/ \E o \in Orders \cup {BlankOrder}, e \in Emails, a \in Amounts \cup {0} :
          create_payment_link(o, e, a) /\ Len(records') <= MaxRecords
    \/ \E t \in Tokens : pay_page(t)
    \/ \E t \in Tokens, gw \in {"ok", "error"} :
          /\ gw = "error" => CheckoutCheck(FindByToken(t), now) = "ok"
          /\ create_checkout_session(t, gw)
    \/ \E s \in SessionIds : PayerPays(s)
    \/ \E t \in Tokens, s \in SessionIds, gw \in {"ok", "error"} :
          \* the gateway can only fail on a call that is made
          /\ gw = "error" => (FindByToken(t) # 0 /\ s \in 1..Len(sessions))
          /\ payment_success(t, s, gw)
    \/ \E t \in Tokens : payment_cancelled(t)
    \/ cleanup_expired

Spec == Init /\ [][Next]_vars

\* the same system, observing payment_success only
SpecReconcile == InitObserving({"reconcile"}) /\ [][Next]_vars

\* the same system, observing cleanup_expired only
SpecSweep == InitObserving({"sweep"}) /\ [][Next]_vars

\* the same system, observing payment_cancelled only
SpecCancel == InitObserving({"cancel"}) /\ [][Next]_vars

\* the same system, observing create_checkout_session only
SpecCheckout == InitObserving({"checkout"}) /\ [][Next]_vars

\* the same system, observing pay_page and create_checkout_session
SpecPage == InitObserving({"render", "checkout"}) /\ [][Next]_vars

\* The same server with time that keeps advancing and a sweep that is invoked
\* again and again (the cron job of line 498).  The clock of the model stops
\* at MaxTime, so links are created only while the clock can still pass their
\* window.
NextLive ==
    \/ Tick
    \/ \E o \in Orders \cup {BlankOrder}, e \in Emails, a \in Amounts \cup {0} :
          /\ now + EXPIRATION_WINDOW < MaxTime
          /\ create_payment_link(o, e, a) /\ Len(records') <= MaxRecords
    \/ \E t \in Tokens : pay_page(t)
    \/ \E t \in Tokens, gw \in {"ok", "error"} :
          /\ gw = "error" => CheckoutCheck(FindByToken(t), now) = "ok"
          /\ create_checkout_session(t, gw)
    \/ \E s \in SessionIds : PayerPays(s)
    \/ \E t \in Tokens, s \in SessionIds, gw \in {"ok", "error"} :
          /\ gw = "error" => (FindByToken(t) # 0 /\ s \in 1..Len(sessions))
          /\ payment_success(t, s, gw)
    \/ \E t \in Tokens : payment_cancelled(t)
    \/ cleanup_expired

SpecLive ==
    /\ InitObserving({"sweep"})
    /\ [][NextLive]_vars
    /\ WF_vars(Tick)
    /\ WF_vars(cleanup_expired)

\* The same server while the gateway cannot be reached: every call to it
\* fails, so no checkout session exists.
NextLinks ==
    \/ Tick
    \/ \E o \in Orders \cup {BlankOrder}, e \in Emails, a \in Amounts \cup {0} :
          create_payment_link(o, e, a) /\ Len(records') <= MaxLinks
    \/ \E t \in Tokens : pay_page(t)
    \/ \E t \in Tokens : create_checkout_session(t, "error")
    \/ \E t \in Tokens : payment_success(t, 1, "error")
    \/ \E t \in Tokens : payment_cancelled(t)
    \/ cleanup_expired

SpecLinks == Init /\ [][NextLinks]_vars

\* ------------------------------------------------------- several servers
\* Several server processes on the one payments.db: the lookup (lines
\* 177-184) and the insert (lines 209-219) of create_payment_link are two
\* separate statements on the database and nothing holds a lock from the one
\* to the other (the SELECT runs outside a transaction, the INSERT opens its
\* own), so another process's statements can fall between them.
create_lookup(w, order_id, email, amount) ==
    /\ pc[w] = "idle"
    /\ IF ~ValidRequest(order_id, email, amount)
       THEN /\ last' = Response("create", NoToken, order_id, "ValidationError", 0)
            /\ UNCHANGED <<pc, req>>
       ELSE LET d == CreateDecision(order_id, now) IN
            CASE d = "AlreadyPaid" ->
                   /\ last' = Response("create", NoToken, order_id, "AlreadyPaid", 0)
                   /\ UNCHANGED <<pc, req>>
              [] d = "Reused" ->
                   /\ last' = Response("create", records[FirstActive(order_id)].token,
                                       order_id, "Reused", 0)
                   /\ UNCHANGED <<pc, req>>
              [] d = "Created" ->
                   /\ pc' = [pc EXCEPT ![w] = "insert"]
                   /\ req' = [req EXCEPT ![w] =
                                [NoRequest EXCEPT !.order_id = order_id,
                                                  !.email = email,
                                                  !.amount = amount,
                                                  !.seen = Len(records)]]
                   /\ last' = Response("lookup", NoToken, order_id, "none", 0)
    /\ UNCHANGED <<records, sessions, now, paidOrders, observed>>

create_insert(w) ==
    /\ pc[w] = "insert"
    /\ records' = InsertLink(req[w].order_id, req[w].email, req[w].amount, now)
    /\ last' = Response("create", Len(records) + 1, req[w].order_id, "Created", 0)
    /\ pc' = [pc EXCEPT ![w] = "idle"]
    /\ req' = [req EXCEPT ![w] = NoRequest]
    /\ UNCHANGED <<sessions, now, paidOrders, observed>>

NextConc ==
    \/ Tick
    \/ \E w \in Workers, o \in Orders \cup {BlankOrder}, e \in Emails,
          a \in Amounts \cup {0} : create_lookup(w, o, e, a)
    \/ \E w \in Workers : create_insert(w) /\ Len(records') <= MaxLinks
    \/ \E t \in Tokens : payment_cancelled(t)
    \/ cleanup_expired

SpecConc == Init /\ [][NextConc]_vars

\* Several server processes, payment_success against payment_cancelled: each
\* handler loads the row (lines 333, 379), and its later commit (lines 359,
\* 385) issues an UPDATE of the status by primary key.  What the handler
\* tests in between is the status it loaded; another process's statements
\* can fall between the load and the commit.
success_lookup(w, token, session_id, gw) ==
    /\ pc[w] = "idle"
    /\ LET i == FindByToken(token) IN
       IF i = 0
       THEN /\ last' = Response("reconcile", token, BlankOrder, "NotFound", 0)
            /\ UNCHANGED <<pc, req>>
       ELSE LET c == SessionCheck(token, session_id, gw) IN
            IF c # "Success"
            THEN /\ last' = Response("reconcile", token, BlankOrder, c, 0)
                 /\ UNCHANGED <<pc, req>>
            ELSE /\ pc' = [pc EXCEPT ![w] = "mark_paid"]
                 /\ req' = [req EXCEPT ![w] =
                              [NoRequest EXCEPT !.token = token,
                                                !.status = records[i].status]]
                 /\ last' = Response("lookup", token, BlankOrder, "none", 0)
    /\ UNCHANGED <<records, sessions, now, paidOrders, observed>>

\* lines 357-359, on the status loaded at line 333
success_write(w) ==
    /\ pc[w] = "mark_paid"
    /\ LET i == FindByToken(req[w].token) IN
       IF req[w].status # "paid"
       THEN /\ records' = SetStatus(i, "paid")
            /\ paidOrders' = paidOrders \cup {records[i].order_id}
       ELSE UNCHANGED <<records, paidOrders>>
    /\ last' = Response("reconcile", req[w].token, BlankOrder, "Success", 0)
    /\ pc' = [pc EXCEPT ![w] = "idle"]
    /\ req' = [req EXCEPT ![w] = NoRequest]
    /\ UNCHANGED <<sessions, now, observed>>

cancel_lookup(w, token) ==
    /\ pc[w] = "idle"
    /\ LET i == FindByToken(token) IN
       IF i = 0
       THEN /\ last' = Response("cancel", token, BlankOrder, "NotFound", 0)
            /\ UNCHANGED <<pc, req>>
       ELSE /\ pc' = [pc EXCEPT ![w] = "mark_cancelled"]
            /\ req' = [req EXCEPT ![w] =
                         [NoRequest EXCEPT !.token = token,
                                           !.status = records[i].status]]
            /\ last' = Response("lookup", token, BlankOrder, "none", 0)
    /\ UNCHANGED <<records, sessions, now, paidOrders, observed>>

\* lines 384-385
cancel_write(w) ==
    /\ pc[w] = "mark_cancelled"
    /\ records' = SetStatus(FindByToken(req[w].token), "cancelled")
    /\ last' = Response("cancel", req[w].token, BlankOrder, "Cancelled", 0)
    /\ pc' = [pc EXCEPT ![w] = "idle"]
    /\ req' = [req EXCEPT ![w] = NoRequest]
    /\ UNCHANGED <<sessions, now, paidOrders, observed>>

NextRace ==
    \/ Tick
    \/ \E o \in Orders, e \in Emails, a \in Amounts :
          create_payment_link(o, e, a) /\ Len(records') <= MaxRecords
    \/ \E t \in Tokens, gw \in {"ok", "error"} :
          /\ gw = "error" => CheckoutCheck(FindByToken(t), now) = "ok"
          /\ create_checkout_session(t, gw)
    \/ \E s \in SessionIds : PayerPays(s)
    \/ \E w \in Workers, t \in Tokens, s \in SessionIds, gw \in {"ok", "error"} :
          /\ gw = "error" => (FindByToken(t) # 0 /\ s \in 1..Len(sessions))
          /\ success_lookup(w, t, s, gw)
    \/ \E w \in Workers : success_write(w)
    \/ \E w \in Workers, t \in Tokens : cancel_lookup(w, t)
    \/ \E w \in Workers : cancel_write(w)

SpecRace == Init /\ [][NextRace]_vars

\* ================================================================ claims
Terminal == {"paid", "expired", "cancelled"}
Accepted == {"Created", "Reused", "AlreadyPaid"}
PendingIdsIn(recs, order_id) ==
    {i \in 1..Len(recs) : recs[i].order_id = order_id /\ recs[i].status = "pending"}
KnownSession(s) == s \in 1..Len(sessions)

\* C1: in every reachable state each order id has at most one record whose
\* stored status is pending or paid.
C1_AtMostOneActive ==
    \A o \in Orders : Cardinality(ActiveIds(o)) <= 1

\* C2: of two create requests for the same order id whose lookups and inserts
\* interleave, at most one inserts a record: a request never inserts when a
\* record for its order id was inserted between its own lookup and its insert.
C2_NoDoubleInsert ==
    [][\A w \in Workers :
         (pc[w] = "insert" /\ pc'[w] = "idle")
         => \A i \in (req[w].seen + 1)..Len(records) :
               records[i].order_id # req[w].order_id]_vars

\* C3: two valid create requests for the same order id served one right after
\* the other return the same token, and afterwards exactly one record of that
\* order id has stored status pending.
C3_TwiceSameToken ==
    [][(/\ last.op = "create" /\ last.result \in Accepted
        /\ last'.op = "create" /\ last'.result \in Accepted
        /\ last'.order_id = last.order_id)
       => /\ last'.token = last.token
          /\ Cardinality(PendingIdsIn(records', last'.order_id)) = 1]_vars

\* C4: no step changes the stored status of a record that is paid, expired or
\* cancelled.
C4_TerminalIsFinal ==
    [][\A i \in Ids :
         records[i].status \in Terminal => records'[i].status = records[i].status]_vars

\* C5: a record's stored status becomes paid only in a payment_success request
\* for that record's token whose session the gateway reports paid and whose
\* metadata token is that record's token; a record is never inserted as paid.
C5_PaidOnlyByVerifiedSession ==
    [][\A i \in 1..Len(records') :
         (records'[i].status = "paid" /\ (i \notin Ids \/ records[i].status # "paid"))
         => /\ i \in Ids
            /\ \E s \in SessionIds :
                  /\ KnownSession(s)
                  /\ sessions[s].payment_status = "paid"
                  /\ sessions[s].payment_token = records[i].token
                  /\ payment_success(records[i].token, s, "ok")]_vars

C5_Witness ==
    /\ last.op = "reconcile" /\ last.result = "Success" /\ ~last.repeat
    /\ \E i \in Ids : records[i].token = last.token /\ records[i].status = "paid"
    /\ \E j \in Ids : records[j].token # last.token /\ records[j].status # "paid"

\* C6: for an existing token and a session the gateway reports paid with a
\* metadata token different from it, payment_success answers TokenMismatch and
\* changes no record.
C6_MismatchRejected ==
    [][\A t \in Tokens, s \in SessionIds :
         (/\ last'.op = "reconcile" /\ last'.token = t
          /\ FindByToken(t) # 0
          /\ KnownSession(s)
          /\ sessions[s].payment_status = "paid"
          /\ sessions[s].payment_token # t
          /\ payment_success(t, s, "ok"))
         => /\ last'.result = "TokenMismatch"
            /\ records' = records]_vars

C6_Witness ==
    /\ last.op = "reconcile" /\ last.result = "TokenMismatch"
    /\ FindByToken(last.token) # 0
    /\ records[FindByToken(last.token)].status = "pending"
    /\ \E s \in 1..Len(sessions) :
          /\ sessions[s].payment_status = "paid"
          /\ sessions[s].payment_token # last.token

\* C7: payment_success with a valid session (paid, metadata token matching)
\* answers success and leaves the record paid; when it directly follows a
\* successful payment_success for the same token it changes nothing.
C7_ReconcileIdempotent ==
    [][\A t \in Tokens, s \in SessionIds :
         (/\ last'.op = "reconcile" /\ last'.token = t
          /\ FindByToken(t) # 0
          /\ KnownSession(s)
          /\ sessions[s].payment_status = "paid"
          /\ sessions[s].payment_token = t
          /\ payment_success(t, s, "ok"))
         => /\ last'.result = "Success"
            /\ records'[FindByToken(t)].status = "paid"
            /\ (last.op = "reconcile" /\ last.token = t /\ last.result = "Success")
               => /\ records' = records
                  /\ UNCHANGED <<sessions, now, paidOrders>>]_vars

C7_Witness ==
    /\ last.op = "reconcile" /\ last.result = "Success" /\ last.repeat
    /\ records[FindByToken(last.token)].status = "paid"

\* C8: for an existing record, create_checkout_session answers
\* AlreadyCompleted exactly when the stored status is paid, InvalidState
\* exactly when the effective status is expired (stored expired, or stored
\* pending with now > created_at + EXPIRATION_WINDOW), and does not reject a
\* pending record that is not expired.
C8_CheckoutOutcome ==
    [][(last'.op = "checkout" /\ FindByToken(last'.token) # 0)
       => LET r == records[FindByToken(last'.token)]
              effectiveExpired ==
                  \/ r.status = "expired"
                  \/ r.status = "pending" /\ now > r.created_at + EXPIRATION_WINDOW
          IN /\ last'.result = "AlreadyCompleted" <=> r.status = "paid"
             /\ last'.result = "InvalidState" <=> effectiveExpired
             /\ (r.status = "pending" /\ ~effectiveExpired)
                => last'.result \in {"Redirect", "GatewayError"}]_vars

\* C9: once payment_success has marked some record of an order id paid, every
\* later valid create request for that order id answers already-paid and
\* inserts nothing.
C9_PaidOrderNeverRecreated ==
    [][(/\ last'.op = "create" /\ last'.result \in Accepted
        /\ last'.order_id \in paidOrders)
       => /\ last'.result = "AlreadyPaid"
          /\ records' = records]_vars

\* C10: cleanup_expired sets to expired exactly the records with stored status
\* pending and created_at < now - EXPIRATION_WINDOW, returns how many they are
\* and leaves every other record as it was (a record created at now, and every
\* paid, cancelled or expired record); a sweep right after a sweep changes no
\* record and returns zero.
C10_SweepExact ==
    [][last'.op = "sweep"
       => LET stale == {i \in Ids : /\ records[i].status = "pending"
                                     /\ records[i].created_at < now - EXPIRATION_WINDOW}
          IN /\ Len(records') = Len(records)
             /\ \A i \in stale : records'[i] = [records[i] EXCEPT !.status = "expired"]
             /\ \A i \in Ids \ stale : records'[i] = records[i]
             /\ \A i \in Ids : (records[i].created_at = now
                                \/ records[i].status \in Terminal)
                               => records'[i] = records[i]
             /\ last'.count = Cardinality(stale)
             /\ last.op = "sweep" => (last'.count = 0 /\ records' = records)]_vars

C10_Witness ==
    /\ last.op = "sweep" /\ last.count >= 1
    /\ \E i \in Ids : records[i].status = "pending" /\ records[i].created_at = now
    /\ \E i \in Ids : records[i].status = "expired"

\* C11: pay_page on a record stored pending with now > created_at +
\* EXPIRATION_WINDOW stores expired and answers the expired view; a record
\* that is past its window stays past it, and create_checkout_session on a
\* record past its window answers InvalidState, so every later checkout of
\* that token does.
C11_LazyExpiryThenRejected ==
    [][\A i \in Ids :
         /\ (/\ last'.op = "render" /\ last'.token = records[i].token
             /\ records[i].status = "pending"
             /\ now > records[i].created_at + EXPIRATION_WINDOW)
            => /\ records'[i].status = "expired"
               /\ last'.result = "ExpiredView"
         /\ now > records[i].created_at + EXPIRATION_WINDOW
            => /\ i \in 1..Len(records')
               /\ records'[i].token = records[i].token
               /\ now' > records'[i].created_at + EXPIRATION_WINDOW
         /\ (/\ last'.op = "checkout" /\ last'.token = records[i].token
             /\ now > records[i].created_at + EXPIRATION_WINDOW)
            => last'.result = "InvalidState"]_vars

C11_Witness ==
    /\ last.op = "render" /\ last.result = "ExpiredView"
    /\ \E i \in Ids : /\ records[i].token = last.token
                       /\ records[i].status = "expired"
                       /\ now > records[i].created_at + EXPIRATION_WINDOW
    /\ \E j \in Ids : records[j].status = "pending"

\* C12: a payment_success or payment_cancelled request that loaded its record
\* as pending, and finds at its write that another request has meanwhile
\* stored paid or cancelled on it, does not overwrite that status.
C12_WriteIsCompareAndSet ==
    [][\A w \in Workers :
         (/\ pc[w] \in {"mark_paid", "mark_cancelled"} /\ pc'[w] = "idle"
          /\ req[w].status = "pending"
          /\ records[FindByToken(req[w].token)].status \in {"paid", "cancelled"})
         => records'[FindByToken(req[w].token)].status
              = records[FindByToken(req[w].token)].status]_vars

\* C13: create_checkout_session leaves every record as it was, whatever the
\* token and whatever its answer (NotFound, InvalidState, AlreadyCompleted,
\* GatewayError or the redirect to a new session).
C13_CheckoutWritesNoRecord ==
    [][last'.op = "checkout"
       => /\ last'.result \in {"NotFound", "InvalidState", "AlreadyCompleted",
                                "GatewayError", "Redirect"}
          /\ records' = records]_vars

C13_Witness ==
    /\ last.op = "checkout" /\ last.result = "InvalidState"
    /\ FindByToken(last.token) # 0
    /\ records[FindByToken(last.token)].status = "pending"
    /\ now > records[FindByToken(last.token)].created_at + EXPIRATION_WINDOW

\* C14: payment_cancelled on the token of a record leaves that record stored
\* cancelled whatever its status was, and every other record and every other
\* field as they were; on a token of no record it answers NotFound and
\* changes no record.
C14_CancelUnconditional ==
    [][last'.op = "cancel"
       => LET i == FindByToken(last'.token) IN
          IF i = 0
          THEN last'.result = "NotFound" /\ records' = records
          ELSE /\ last'.result = "Cancelled"
               /\ records' = [records EXCEPT ![i].status = "cancelled"]]_vars

\* a record payment_success had marked paid has been cancelled
C14_Witness ==
    /\ last.op = "cancel" /\ last.result = "Cancelled"
    /\ \E i \in Ids : /\ records[i].token = last.token
                       /\ records[i].status = "cancelled"
                       /\ records[i].order_id \in paidOrders
                       /\ \A j \in Ids \ {i} : records[j].status # "paid"

\* C15: the gateway is asked for a checkout session only for a record whose
\* stored status is pending and with now <= created_at + EXPIRATION_WINDOW.
C15_SessionOnlyForPayable ==
    [][Len(sessions') > Len(sessions)
       => LET i == FindByToken(sessions'[Len(sessions')].payment_token) IN
          /\ i # 0
          /\ records[i].status = "pending"
          /\ now <= records[i].created_at + EXPIRATION_WINDOW]_vars

\* C16: pay_page answers the payment form exactly for a record stored pending
\* with now <= created_at + EXPIRATION_WINDOW, the expired view for every
\* record stored cancelled, and the already-paid view for every record stored
\* paid.
C16_ViewByStatus ==
    [][(last'.op = "render" /\ FindByToken(last'.token) # 0)
       => LET r == records[FindByToken(last'.token)] IN
          /\ last'.result = "FormView"
               <=> (r.status = "pending" /\ now <= r.created_at + EXPIRATION_WINDOW)
          /\ r.status = "cancelled" => last'.result = "ExpiredView"
          /\ r.status = "paid" => last'.result = "PaidView"]_vars

\* C17: when the record found for the order id is stored pending, a valid
\* create request reuses it exactly when now <= created_at +
\* EXPIRATION_WINDOW, and inserts nothing while create_checkout_session still
\* accepts that record.
C17_ReuseUntilExpired ==
    [][(/\ last'.op = "create" /\ last'.result \in Accepted
        /\ FirstActive(last'.order_id) # 0
        /\ records[FirstActive(last'.order_id)].status = "pending")
       => LET r == records[FirstActive(last'.order_id)] IN
          /\ last'.result = "Reused" <=> now <= r.created_at + EXPIRATION_WINDOW
          /\ CheckoutCheck(FirstActive(last'.order_id), now) = "ok"
             => records' = records /\ last'.token = r.token]_vars

LatestActive(order_id) ==
    CHOOSE i \in ActiveIds(order_id) : \A j \in ActiveIds(order_id) : j <= i

\* C18: when an order id has several records stored pending or paid, a valid
\* create request decides on the one created last: already-paid when it is
\* paid, its token reused when it is pending and inside its window, a new
\* record when it is pending and past its window.
C18_DecidesOnLatest ==
    [][(/\ last'.op = "create" /\ last'.result \in Accepted
        /\ Cardinality(ActiveIds(last'.order_id)) >= 2)
       => LET r == records[LatestActive(last'.order_id)] IN
          /\ r.status = "paid" => last'.result = "AlreadyPaid"
          /\ (r.status = "pending" /\ now < r.created_at + EXPIRATION_WINDOW)
             => (last'.result = "Reused" /\ last'.token = r.token)
          /\ (r.status = "pending" /\ now > r.created_at + EXPIRATION_WINDOW)
             => last'.result = "Created"]_vars

\* C19: no step removes a record, and no step changes the token, order_id,
\* email, amount or created_at of a record: status is the only field written
\* on a record after its insertion.
C19_OnlyStatusWritten ==
    [][/\ Len(records') >= Len(records)
       /\ \A i \in Ids :
            records'[i] = [records[i] EXCEPT !.status = records'[i].status]]_vars

C19_Witness ==
    /\ last.op = "sweep" /\ last.count >= 1
    /\ \E i \in Ids : /\ records[i].status = "expired"
                       /\ records[i].token = i
                       /\ records[i].amount \in Amounts
                       /\ records[i].created_at < now - EXPIRATION_WINDOW
    /\ \E j \in Ids : records[j].status \in {"paid", "cancelled"}

\* C20: with time advancing and the sweep invoked again and again, every
\* record stored pending is eventually stored paid, cancelled or expired.
C20_NoPendingForever ==
    \A i \in 1..MaxRecords :
        (i \in Ids /\ records[i].status = "pending")
        ~> (i \in Ids /\ records[i].status \in Terminal)

\* the sweep has expired a link nothing else had touched, and none is pending
C20_Witness ==
    /\ last.op = "sweep" /\ last.count >= 1
    /\ now = MaxTime
    /\ records # << >>
    /\ \A i \in Ids : records[i].status = "expired"

====
